---- MODULE Spec2Model ----
(***************************************************************************)
(* Model of the simulation-and-scoring engine of maze_game                 *)
(* (src/trainer.py): the level grid, the movement resolver                 *)
(* (Trainer.get_new_position), the neighbour enumeration                   *)
(* (Trainer.get_valid_moves) and the headless episode loop                 *)
(* (Trainer.play_game_no_display).                                         *)
(*                                                                         *)
(* Coordinates are the program's: x is the column, y the row, both from 0; *)
(* game_grid[y][x] of the program is game_grid[y + 1][x + 1] here, since   *)
(* TLA+ sequences start at 1.  A position is the tuple <<x, y>>.           *)
(*                                                                         *)
(* Spec is one call of eval_genomes_no_display: the batch of trajectories  *)
(* played against one policy on one level; BatchSpec is the same with a    *)
(* longer batch on smaller levels, PolicyErrorSpec the same with a policy  *)
(* that may answer with an output selecting no action.  ResolverSpec calls *)
(* the two pure functions on every cell of every level, CombatSpec the two *)
(* attacks on every pair of positions, DecisionSpec the decision scan on   *)
(* every output vector.  ConstructSpec is Trainer.__init__ on every grid   *)
(* file, GeneratorSpec is generate_player_moves.                           *)
(* ParallelSpec is several calls of eval_genomes_no_display on one trainer *)
(* and one batch with their steps interleaved, SoloSpec one such call.     *)
(***************************************************************************)
EXTENDS Integers, Sequences, FiniteSets, Bags, TLC

VARIABLES
    game_grid,        \* self.game_grid: rows of cell codes, loaded once
    num_games,        \* len(player_moves): trajectories in the batch
    current_moves_len,\* generate_player_moves: len(current_moves)
    moves_len,        \* generate_player_moves: len(moves)
    evals,            \* per evaluation running side by side: its locals and fitness
    policies,         \* per evaluation: the policy (genome) it evaluates
    player_moves,     \* the trajectory batch handed to those evaluations
    enemy_start,      \* self.enemy_start_positions as those evaluations read it
    pc,               \* position in the function the specification runs
    games_played,     \* trajectories of player_moves already finished
    player,           \* (player_x, player_y) of the current step
    player_health,    \* player_health
    enemy_positions,  \* enemy_positions, in spawn order
    enemy_index,      \* enemy_index of the enemy about to act
    moves_made,       \* moves_made
    fitness,          \* genome.fitness, kept as its exact summands
    exit,             \* how the step loop of the current episode was left
    acted,            \* indices of the enemies that acted in the current step
    oob_lookup,       \* has a grid lookup used a coordinate outside the grid?
    call,             \* the last call made on a pure function
    result            \* what that call returned

vars == <<game_grid, num_games, current_moves_len, moves_len, evals, policies,
          player_moves, enemy_start, pc, games_played, player, player_health, enemy_positions,
          enemy_index, moves_made, fitness, exit, acted, oob_lookup, call, result>>

gen_vars == <<current_moves_len, moves_len>>

par_vars == <<evals, policies, player_moves, enemy_start>>

episode_vars == <<pc, games_played, player, player_health, enemy_positions,
                  enemy_index, moves_made, fitness, exit, acted, oob_lookup>>

--------------------------------------------------------------------------
(* Program constants, src/trainer.py lines 13-22.                          *)
GAMES_PER_GENERATION == 10
MAX_PLAYER_MOVES == 100
PLAYER_STARTING_HEALTH == 100
ENEMY_SHOOT_DAMAGE == 20
ENEMY_HIT_DAMAGE == 50
WALL_CELL_STATE_CODE == 1
PLAYER_CELL_STATE_CODE == 2
ENEMY_CELL_STATE_CODE == 3
\* level_editor.py writes CellState.EMPTY as 0
EMPTY_CELL_STATE_CODE == 0

(* EnemyAction, src/trainer.py lines 25-32.                                *)
MOVE_LEFT == 0
MOVE_RIGHT == 1
MOVE_UP == 2
MOVE_DOWN == 3
STAND_STILL == 4
SHOOT_PLAYER == 5
HIT_PLAYER == 6

--------------------------------------------------------------------------
(* Bounds of the model.                                                    *)
MaxCells == 4           \* most cells (width * height) of a level played on
ResolverMaxCells == 6   \* most cells of a level the resolver is called on
MaxEnemies == 2         \* most EnemySpawn cells in a level
MaxTrajLen == 2         \* longest trajectory handed to an episode
MaxGames == 1           \* trajectories in the batch player_moves
BatchMaxCells == 2      \* most cells of a level a longer batch is played on
BatchGames == 2         \* trajectories in the longer batch
RawMaxSide == 2         \* most rows, and most cells of a row, of a grid file
ParEvals == 2           \* evaluations running side by side
ParMaxCells == 2        \* most cells of a level they run on
ParGames == 1           \* trajectories in the batch they share

--------------------------------------------------------------------------
(* The grid world.                                                         *)

\* self.game_grid_height = len(self.game_grid)
game_grid_height == Len(game_grid)

\* self.game_grid_width = len(self.game_grid[0])
game_grid_width == Len(game_grid[1])

InBounds(x, y) ==
    /\ 0 <= x /\ x < game_grid_width
    /\ 0 <= y /\ y < game_grid_height

\* Python list indexing: 0..n-1 are the elements, -n..-1 count from the end,
\* anything else raises IndexError (written -1 here).
PyIndex(i, n) ==
    IF 0 <= i /\ i < n THEN i
    ELSE IF -n <= i /\ i < 0 THEN n + i
    ELSE -1

\* self.game_grid[y][x]; -1 (no cell code) stands for the IndexError.
Cell(x, y) ==
    LET yy == PyIndex(y, game_grid_height)
        xx == PyIndex(x, game_grid_width)
    IN  IF yy = -1 \/ xx = -1 THEN -1 ELSE game_grid[yy + 1][xx + 1]

\* the escape coordinate (W-1, H) tested by the episode loop and the generator
EscapeCoordinate == <<game_grid_width - 1, game_grid_height>>

\* Cells of the grid holding `code`, in the row-major order of the scan of
\* find_start_positions (y outer, x inner).
RECURSIVE ScanCells(_, _)
ScanCells(code, k) ==
    IF k >= game_grid_width * game_grid_height THEN <<>>
    ELSE LET x == k % game_grid_width
             y == k \div game_grid_width
         IN  (IF Cell(x, y) = code THEN <<(<<x, y>>)>> ELSE <<>>)
                 \o ScanCells(code, k + 1)

\* find_start_positions: self.enemy_start_positions
enemy_start_positions == ScanCells(ENEMY_CELL_STATE_CODE, 0)

\* find_start_positions: (self.player_start_x, self.player_start_y); the last
\* PlayerSpawn cell of the scan wins.
player_start ==
    LET cells == ScanCells(PLAYER_CELL_STATE_CODE, 0)
    IN  cells[Len(cells)]

--------------------------------------------------------------------------
(* Movement resolver.                                                      *)

\* condition of "go right", lines 96-99
go_right_allowed(current_x, current_y) ==
    /\ current_x < game_grid_width - 1
    /\ Cell(current_x + 1, current_y) # WALL_CELL_STATE_CODE

\* The slip ">= 0" for "> 0" in "go left".
go_left_allowed_ge(current_x, current_y) ==
    /\ current_x >= 0
    /\ Cell(current_x - 1, current_y) # WALL_CELL_STATE_CODE

\* condition of "go left", lines 104-107
go_left_allowed(current_x, current_y) ==
    /\ current_x > 0
    /\ Cell(current_x - 1, current_y) # WALL_CELL_STATE_CODE

\* conditions of "go down", lines 112-120: the first reads no cell
go_down_allowed(current_x, current_y) ==
    \/ /\ current_x = game_grid_width - 1
       /\ current_y < game_grid_height - 1
    \/ /\ current_y < game_grid_height - 1
       /\ Cell(current_x, current_y + 1) # WALL_CELL_STATE_CODE

\* condition of "go up", lines 125-128
go_up_allowed(current_x, current_y) ==
    /\ current_y > 0
    /\ Cell(current_x, current_y - 1) # WALL_CELL_STATE_CODE

\* Trainer.get_new_position(current_x, current_y, horizontal_movement=...,
\* vertical_movement=...)
get_new_position(current_x, current_y, horizontal_movement, vertical_movement) ==
    IF horizontal_movement = 1 THEN
        IF go_right_allowed(current_x, current_y)
        THEN <<current_x + 1, current_y>> ELSE <<current_x, current_y>>
    ELSE IF horizontal_movement = -1 THEN
        IF go_left_allowed(current_x, current_y)
        THEN <<current_x - 1, current_y>> ELSE <<current_x, current_y>>
    ELSE IF vertical_movement = 1 THEN
        IF go_down_allowed(current_x, current_y)
        THEN <<current_x, current_y + 1>> ELSE <<current_x, current_y>>
    ELSE IF vertical_movement = -1 THEN
        IF go_up_allowed(current_x, current_y)
        THEN <<current_x, current_y - 1>> ELSE <<current_x, current_y>>
    ELSE <<current_x, current_y>>

\* The grid coordinates get_new_position reads (`and` short-circuits, so a
\* cell is read only once the bounds test before it has passed).
get_new_position_reads(current_x, current_y, horizontal_movement, vertical_movement) ==
    IF horizontal_movement = 1 THEN
        IF current_x < game_grid_width - 1
        THEN {<<current_x + 1, current_y>>} ELSE {}
    ELSE IF horizontal_movement = -1 THEN
        IF current_x > 0 THEN {<<current_x - 1, current_y>>} ELSE {}
    ELSE IF vertical_movement = 1 THEN
        IF /\ current_x = game_grid_width - 1
           /\ current_y < game_grid_height - 1
        THEN {}
        ELSE IF current_y < game_grid_height - 1
        THEN {<<current_x, current_y + 1>>} ELSE {}
    ELSE IF vertical_movement = -1 THEN
        IF current_y > 0 THEN {<<current_x, current_y - 1>>} ELSE {}
    ELSE {}

--------------------------------------------------------------------------
(* Neighbour enumeration.                                                  *)

\* "move left", line 138
valid_left(x, y) ==
    x > 0 /\ Cell(x - 1, y) # WALL_CELL_STATE_CODE

\* "move right", lines 142-145
valid_right(x, y) ==
    x < game_grid_width - 1 /\ Cell(x + 1, y) # WALL_CELL_STATE_CODE

\* The slip of leaving the Wall test out of "move up".
valid_up_no_wall_test(x, y) ==
    y > 0

\* "move up", line 150
valid_up(x, y) ==
    y > 0 /\ Cell(x, y - 1) # WALL_CELL_STATE_CODE

\* The slip of testing the row alone in the escape move.
valid_escape_any_column(x, y) ==
    y = game_grid_height - 1

\* "move down from bottom right corner (player wins)", line 154
valid_escape(x, y) ==
    x = game_grid_width - 1 /\ y = game_grid_height - 1

\* "move down", lines 158-161
valid_down(x, y) ==
    y < game_grid_height - 1 /\ Cell(x, y + 1) # WALL_CELL_STATE_CODE

\* Trainer.get_valid_moves(x, y): the list, in the order of the appends
get_valid_moves(x, y) ==
    <<(<<x, y>>)>>
      \o (IF valid_left(x, y) THEN <<(<<x - 1, y>>)>> ELSE <<>>)
      \o (IF valid_right(x, y) THEN <<(<<x + 1, y>>)>> ELSE <<>>)
      \o (IF valid_up(x, y) THEN <<(<<x, y - 1>>)>> ELSE <<>>)
      \o (IF valid_escape(x, y) THEN <<(<<x, y + 1>>)>> ELSE <<>>)
      \o (IF valid_down(x, y) THEN <<(<<x, y + 1>>)>> ELSE <<>>)

\* elements of a list
Range(s) == {s[i] : i \in DOMAIN s}

--------------------------------------------------------------------------
(* Combat resolver: the SHOOT_PLAYER and HIT_PLAYER cases.                 *)

\* (player_x - enemy_x) ** 2 + (player_y - enemy_y) ** 2
dist2(p, e) ==
    (p[1] - e[1]) * (p[1] - e[1]) + (p[2] - e[2]) * (p[2] - e[2])

\* [(x, y) for x in range(x_from, x_to)]
RowCells(y, x_from, x_to) ==
    [i \in 1..(IF x_to > x_from THEN x_to - x_from ELSE 0) |-> <<x_from + i - 1, y>>]

\* [(x, y) for y in range(y_from, y_to)]
ColCells(x, y_from, y_to) ==
    [i \in 1..(IF y_to > y_from THEN y_to - y_from ELSE 0) |-> <<x, y_from + i - 1>>]

\* all(self.game_grid[y][x] != WALL_CELL_STATE_CODE for ... in cells)
AllNotWall(cells) ==
    \A i \in DOMAIN cells : Cell(cells[i][1], cells[i][2]) # WALL_CELL_STATE_CODE

\* the cells all(...) reads: it stops at the first Wall it meets
AllReads(cells) ==
    {cells[i] : i \in {k \in DOMAIN cells :
        \A j \in 1..(k - 1) : Cell(cells[j][1], cells[j][2]) # WALL_CELL_STATE_CODE}}

\* a shot along the row that nothing stops
shoot_row_hits_through_walls(enemy, p) ==
    enemy[2] = p[2]

\* "player horizontally aligned", lines 314-329
shoot_row_hits(enemy, p) ==
    /\ enemy[2] = p[2]
    /\ IF enemy[1] <= p[1] /\ AllNotWall(RowCells(enemy[2], enemy[1], p[1]))
       THEN TRUE
       ELSE enemy[1] > p[1] /\ AllNotWall(RowCells(enemy[2], p[1], enemy[1]))

\* a column test that needs the enemy strictly above or below the player
shoot_col_hits_apart(enemy, p) ==
    /\ enemy[1] = p[1]
    /\ IF enemy[2] < p[2] /\ AllNotWall(ColCells(enemy[1], enemy[2], p[2]))
       THEN TRUE
       ELSE enemy[2] > p[2] /\ AllNotWall(ColCells(enemy[1], p[2], enemy[2]))

\* "vertically aligned", lines 331-346
shoot_col_hits(enemy, p) ==
    /\ enemy[1] = p[1]
    /\ IF enemy[2] <= p[2] /\ AllNotWall(ColCells(enemy[1], enemy[2], p[2]))
       THEN TRUE
       ELSE enemy[2] > p[2] /\ AllNotWall(ColCells(enemy[1], p[2], enemy[2]))

\* a range of four cells instead of three
shoot_in_range_of_four(enemy, p) == dist2(p, enemy) <= 4 * 4

\* math.sqrt(d2) <= 3 for an integer d2: exactly d2 <= 9
shoot_in_range(enemy, p) == dist2(p, enemy) <= 3 * 3

\* case EnemyAction.SHOOT_PLAYER: what is taken off player_health
shoot_damage(enemy, p) ==
    IF shoot_in_range(enemy, p)
    THEN (IF shoot_row_hits(enemy, p) THEN ENEMY_SHOOT_DAMAGE ELSE 0)
         + (IF shoot_col_hits(enemy, p) THEN ENEMY_SHOOT_DAMAGE ELSE 0)
    ELSE 0

\* the grid coordinates the SHOOT_PLAYER case reads
shoot_reads(enemy, p) ==
    IF ~shoot_in_range(enemy, p) THEN {}
    ELSE (IF enemy[2] # p[2] THEN {}
          ELSE IF enemy[1] <= p[1] THEN AllReads(RowCells(enemy[2], enemy[1], p[1]))
          ELSE AllReads(RowCells(enemy[2], p[1], enemy[1])))
         \cup
         (IF enemy[1] # p[1] THEN {}
          ELSE IF enemy[2] <= p[2] THEN AllReads(ColCells(enemy[1], enemy[2], p[2]))
          ELSE AllReads(ColCells(enemy[1], p[2], enemy[2])))

\* a melee that only reaches the enemy's own cell
hit_damage_same_cell_only(enemy, p) ==
    IF dist2(p, enemy) < 1 THEN ENEMY_HIT_DAMAGE ELSE 0

\* case EnemyAction.HIT_PLAYER: math.sqrt(d2) <= 1 for an integer d2
hit_damage(enemy, p) ==
    IF dist2(p, enemy) <= 1 THEN ENEMY_HIT_DAMAGE ELSE 0

--------------------------------------------------------------------------
(* The decision: lines 276-287.                                            *)

\* the scan "if value > largest_value" over output[i..], first index first
RECURSIVE ArgmaxFrom(_, _, _, _)
ArgmaxFrom(output, i, largest_value, decision) ==
    IF i \notin DOMAIN output THEN decision
    ELSE IF output[i] > largest_value
         THEN ArgmaxFrom(output, i + 1, output[i], i)
         ELSE ArgmaxFrom(output, i + 1, largest_value, decision)

\* largest_value = -1; decision = -1; for i, value in enumerate(output): ...
Decide(output) == ArgmaxFrom(output, 0, -1, -1)

\* What neural_network.activate may return: 7 activations.  The network is
\* an opaque policy; its outputs are drawn from the vectors over {0, 1} with
\* at most one 1 and the vector of seven 1s.  Every one of them selects an
\* action (some entry exceeds -1), and every action is selected by one.
PolicyOutputs ==
    {v \in [0..6 -> {0, 1}] :
        Cardinality({i \in 0..6 : v[i] = 1}) \in {0, 1, 7}}

\* match decision: the enemy's position after the action
resolve_position(decision, enemy) ==
    IF decision = MOVE_LEFT THEN get_new_position(enemy[1], enemy[2], -1, 0)
    ELSE IF decision = MOVE_RIGHT THEN get_new_position(enemy[1], enemy[2], 1, 0)
    ELSE IF decision = MOVE_UP THEN get_new_position(enemy[1], enemy[2], 0, -1)
    ELSE IF decision = MOVE_DOWN THEN get_new_position(enemy[1], enemy[2], 0, 1)
    ELSE enemy

\* the slip of a shot that is added to the health instead of taken off it
resolve_damage_shot_heals(decision, enemy, p) ==
    IF decision = SHOOT_PLAYER THEN 0 - shoot_damage(enemy, p)
    ELSE IF decision = HIT_PLAYER THEN hit_damage(enemy, p)
    ELSE 0

\* match decision: what the action takes off player_health
resolve_damage(decision, enemy, p) ==
    IF decision = SHOOT_PLAYER THEN shoot_damage(enemy, p)
    ELSE IF decision = HIT_PLAYER THEN hit_damage(enemy, p)
    ELSE 0

\* match decision: the grid coordinates the action reads
resolve_reads(decision, enemy, p) ==
    IF decision = MOVE_LEFT THEN get_new_position_reads(enemy[1], enemy[2], -1, 0)
    ELSE IF decision = MOVE_RIGHT THEN get_new_position_reads(enemy[1], enemy[2], 1, 0)
    ELSE IF decision = MOVE_UP THEN get_new_position_reads(enemy[1], enemy[2], 0, -1)
    ELSE IF decision = MOVE_DOWN THEN get_new_position_reads(enemy[1], enemy[2], 0, 1)
    ELSE IF decision = SHOOT_PLAYER THEN shoot_reads(enemy, p)
    ELSE {}

--------------------------------------------------------------------------
(* Levels.                                                                 *)

CellCodes == {EMPTY_CELL_STATE_CODE, WALL_CELL_STATE_CODE,
              PLAYER_CELL_STATE_CODE, ENEMY_CELL_STATE_CODE}

CountCode(g, code) ==
    Cardinality({c \in (DOMAIN g) \X (DOMAIN g[1]) : g[c[1]][c[2]] = code})

\* Rectangular grids of at most n cells with exactly one PlayerSpawn and at
\* most MaxEnemies EnemySpawn cells.
LevelsUpTo(n) ==
    UNION {{g \in [1..d[2] -> [1..d[1] -> CellCodes]] :
                /\ CountCode(g, PLAYER_CELL_STATE_CODE) = 1
                /\ CountCode(g, ENEMY_CELL_STATE_CODE) <= MaxEnemies} :
           d \in {wh \in (1..n) \X (1..n) : wh[1] * wh[2] <= n}}

\* The levels episodes are played on.
EpisodeLevels == LevelsUpTo(MaxCells)

\* The levels the resolver and the neighbour enumeration are called on.
Levels == LevelsUpTo(ResolverMaxCells)

--------------------------------------------------------------------------
(* The episode loop of play_game_no_display.                               *)

\* genome.fitness = 0 (eval_genomes_no_display).  The value of the fitness is
\*   0.1 * reward - SUM(sqrt(d2) : d2 in dist) / MAX_PLAYER_MOVES**2
\*       + SUM(terminal)
\* and the model keeps the summands: how many times 0.1 was added, the bag
\* of squared distances whose root was subtracted, and the list of terminal
\* adjustments, one entry per adjustment made.
ZeroFitness == [reward |-> 0, dist |-> EmptyBag, terminal |-> <<>>]

\* The slip of comparing player_y with the last row instead of the row below.
escape_check_last_row(p) ==
    p[1] = game_grid_width - 1 /\ p[2] = game_grid_height - 1

\* if player_x == self.game_grid_width - 1 and player_y == self.game_grid_height
escape_check(p) ==
    p[1] = game_grid_width - 1 /\ p[2] = game_grid_height

\* The slip "< 0" for "<= 0".
health_break_strict(health) == health < 0

\* if player_health <= 0: break   (after an enemy's action, and after the
\* enemy loop)
health_break(health) == health <= 0

\* The slip of leaving out the square.
terminal_magnitude_linear(moves, health) ==
    (MAX_PLAYER_MOVES - moves) + (PLAYER_STARTING_HEALTH - health)

\* (MAX_PLAYER_MOVES - moves_made) ** 2 + (PLAYER_STARTING_HEALTH - player_health)
terminal_magnitude(moves, health) ==
    (MAX_PLAYER_MOVES - moves) * (MAX_PLAYER_MOVES - moves)
        + (PLAYER_STARTING_HEALTH - health)

\* the slip ">= 0" for "> 0": a player left with no health counts as alive
terminal_adjustment_alive_at_zero(moves, health) ==
    IF health >= 0 THEN 0 - terminal_magnitude(moves, health)
    ELSE terminal_magnitude(moves, health)

\* "calculate fitness": the signed amount added to genome.fitness
terminal_adjustment(moves, health) ==
    IF health > 0 THEN 0 - terminal_magnitude(moves, health)
    ELSE terminal_magnitude(moves, health)

\* a reward for every action, whether or not the enemy moved
shaping_reward_every_action(enemy, moved) == 1

\* if enemy_positions[enemy_index] != [enemy_x, enemy_y]: genome.fitness += 0.1
\* (counted in tenths)
shaping_reward(enemy, moved) == IF moved # enemy THEN 1 ELSE 0

\* the distance taken from where the enemy stood before its action
distance_penalty_before_move(p, enemy, moved) == dist2(p, enemy)

\* genome.fitness -= math.sqrt(d2) / MAX_PLAYER_MOVES**2, with d2 measured
\* from (enemy_x, enemy_y) after the action; the summand is kept as its d2
distance_penalty(p, enemy, moved) == dist2(p, moved)

\* No evaluations run side by side.
NoEvaluations ==
    /\ evals = <<>>
    /\ policies = <<>>
    /\ player_moves = <<>>
    /\ enemy_start = <<>>

\* What the fields hold while no episode of the batch is running.
Idle ==
    /\ player = <<0, 0>>
    /\ player_health = PLAYER_STARTING_HEALTH
    /\ enemy_positions = <<>>
    /\ enemy_index = 0
    /\ moves_made = 0
    /\ exit = "none"
    /\ acted = {}
    /\ oob_lookup = FALSE

Init ==
    /\ game_grid \in EpisodeLevels
    /\ num_games = MaxGames
    /\ current_moves_len = 0
    /\ moves_len = 0
    /\ pc = "batch"
    /\ games_played = 0
    /\ fitness = ZeroFitness
    /\ Idle
    /\ NoEvaluations
    /\ call = <<>>
    /\ result = <<>>

\* for moves in player_moves: player_health = ...; enemy_positions = ...;
\* moves_made = 0.  `player` starts as the spawn the trajectory was walked from.
StartEpisode ==
    /\ pc = "batch"
    /\ games_played < num_games
    /\ player_health' = PLAYER_STARTING_HEALTH
    /\ enemy_positions' = enemy_start_positions
    /\ moves_made' = 0
    /\ player' = player_start
    /\ enemy_index' = 0
    /\ exit' = "running"
    /\ acted' = {}
    /\ pc' = "step"
    /\ UNCHANGED <<game_grid, num_games, par_vars, gen_vars, games_played, fitness, oob_lookup,
                   call, result>>

\* for player_x, player_y in moves: moves_made += 1; the escape test; entry
\* to the enemy loop.  The trajectory is an input that generate_player_moves
\* walked from the spawn through get_valid_moves; it is revealed one position
\* at a time, and holds at most MaxTrajLen positions.
NextMove ==
    /\ pc = "step"
    /\ moves_made < MaxTrajLen
    /\ moves_made < MAX_PLAYER_MOVES
    /\ \E p \in Range(get_valid_moves(player[1], player[2])) :
        /\ player' = p
        /\ moves_made' = moves_made + 1
        /\ acted' = {}
            /\ enemy_index' = 0
        /\ IF escape_check(p)
           THEN pc' = "calc" /\ exit' = "escape"
           ELSE IF Len(enemy_positions) = 0
           THEN pc' = "step" /\ exit' = exit
           ELSE pc' = "enemy" /\ exit' = exit
    /\ UNCHANGED <<game_grid, num_games, par_vars, gen_vars, games_played, player_health,
                   enemy_positions, fitness, oob_lookup, call, result>>

\* The trajectory has no further position: the step loop ends.
TrajectoryEnd ==
    /\ pc = "step"
    /\ moves_made >= 1
    /\ pc' = "calc"
    /\ exit' = "exhausted"
    /\ UNCHANGED <<game_grid, num_games, par_vars, gen_vars, games_played, player, player_health,
                   enemy_positions, enemy_index, moves_made, fitness, acted,
                   oob_lookup, call, result>>

\* One iteration of "for enemy_index, (enemy_x, enemy_y) in
\* enumerate(enemy_positions)": observation, decision, action, shaping
\* reward, position update, distance penalty, the two health breaks.
EnemyAct ==
    /\ pc = "enemy"
    /\ \E output \in PolicyOutputs :
        LET decision == Decide(output)
            enemy == enemy_positions[enemy_index + 1]
            moved == resolve_position(decision, enemy)
            health == player_health - resolve_damage(decision, enemy, player)
        IN  /\ player_health' = health
            /\ enemy_positions' = [enemy_positions EXCEPT ![enemy_index + 1] = moved]
            /\ fitness' = [fitness EXCEPT
                  !.reward = @ + shaping_reward(enemy, moved),
                  !.dist = @ (+) SetToBag({distance_penalty(player, enemy, moved)})]
            /\ acted' = acted \cup {enemy_index}
            /\ oob_lookup' = (oob_lookup \/ \E c \in resolve_reads(decision, enemy, player) :
                                ~InBounds(c[1], c[2]))
            /\ IF health_break(health)
               THEN pc' = "calc" /\ exit' = "health" /\ enemy_index' = enemy_index
               ELSE IF enemy_index + 1 < Len(enemy_positions)
               THEN pc' = "enemy" /\ exit' = exit /\ enemy_index' = enemy_index + 1
               ELSE pc' = "step" /\ exit' = exit /\ enemy_index' = enemy_index
    /\ UNCHANGED <<game_grid, num_games, par_vars, gen_vars, games_played, player, moves_made,
                   call, result>>

\* "calculate fitness": the terminal adjustment of the episode
CalcFitness ==
    /\ pc = "calc"
    /\ fitness' = [fitness EXCEPT
          !.terminal = Append(@, terminal_adjustment(moves_made, player_health))]
    /\ games_played' = games_played + 1
    /\ pc' = "batch"
    /\ UNCHANGED <<game_grid, num_games, par_vars, gen_vars, player, player_health,
                   enemy_positions, enemy_index, moves_made, exit, acted,
                   oob_lookup, call, result>>

\* player_moves is exhausted: play_game_no_display returns
FinishBatch ==
    /\ pc = "batch"
    /\ games_played = num_games
    /\ pc' = "done"
    /\ UNCHANGED <<game_grid, num_games, par_vars, gen_vars, games_played, player, player_health,
                   enemy_positions, enemy_index, moves_made, fitness, exit, acted,
                   oob_lookup, call, result>>

Next ==
    \/ StartEpisode
    \/ NextMove
    \/ TrajectoryEnd
    \/ EnemyAct
    \/ CalcFitness
    \/ FinishBatch

Spec == Init /\ [][Next]_vars

\* The same evaluation with a batch of BatchGames trajectories, on the
\* smaller levels.
BatchInit ==
    /\ game_grid \in LevelsUpTo(BatchMaxCells)
    /\ num_games = BatchGames
    /\ current_moves_len = 0
    /\ moves_len = 0
    /\ pc = "batch"
    /\ games_played = 0
    /\ fitness = ZeroFitness
    /\ Idle
    /\ NoEvaluations
    /\ call = <<>>
    /\ result = <<>>

BatchSpec == BatchInit /\ [][Next]_vars

--------------------------------------------------------------------------
(* The resolver and the neighbour enumeration, called on every cell of     *)
(* every level.                                                            *)

Directions == {<<1, 0>>, <<-1, 0>>, <<0, 1>>, <<0, -1>>}

ResolverInit ==
    /\ game_grid \in Levels
    /\ num_games = 0
    /\ current_moves_len = 0
    /\ moves_len = 0
    /\ pc = "idle"
    /\ games_played = 0
    /\ fitness = ZeroFitness
    /\ Idle
    /\ NoEvaluations
    /\ call = <<>>
    /\ result = <<>>

\* get_new_position(x, y, horizontal_movement=d[1], vertical_movement=d[2])
CallGetNewPosition ==
    /\ pc = "idle"
    /\ \E x \in 0..(game_grid_width - 1), y \in 0..(game_grid_height - 1),
          d \in Directions :
        /\ call' = <<"get_new_position", x, y, d[1], d[2]>>
        /\ result' = get_new_position(x, y, d[1], d[2])
    /\ UNCHANGED <<game_grid, num_games, par_vars, gen_vars, episode_vars>>

\* get_valid_moves(x, y), on the cells a player can stand on
CallGetValidMoves ==
    /\ pc = "idle"
    /\ \E x \in 0..(game_grid_width - 1), y \in 0..(game_grid_height - 1) :
        /\ Cell(x, y) # WALL_CELL_STATE_CODE
        /\ call' = <<"get_valid_moves", x, y>>
        /\ result' = get_valid_moves(x, y)
    /\ UNCHANGED <<game_grid, num_games, par_vars, gen_vars, episode_vars>>

ResolverNext ==
    \/ CallGetNewPosition
    \/ CallGetValidMoves

ResolverSpec == ResolverInit /\ [][ResolverNext]_vars

--------------------------------------------------------------------------
(* The two attacks of the match statement (lines 308-352), applied to a    *)
(* player at full health, for every enemy and player position of every     *)
(* level.                                                                  *)

\* Cells an enemy can be on when it acts: any cell that is not a Wall, and
\* the cells of the last column below the first row, which MOVE_DOWN enters
\* whatever they hold.
EnemyCells ==
    {c \in (0..(game_grid_width - 1)) \X (0..(game_grid_height - 1)) :
        \/ Cell(c[1], c[2]) # WALL_CELL_STATE_CODE
        \/ c[1] = game_grid_width - 1 /\ c[2] >= 1}

\* Cells the player can be on when an enemy acts: a trajectory holds no Wall,
\* and the step that holds the escape coordinate ends before the enemies act.
PlayerCells ==
    {c \in (0..(game_grid_width - 1)) \X (0..(game_grid_height - 1)) :
        Cell(c[1], c[2]) # WALL_CELL_STATE_CODE}

\* The levels the attacks are tried on: the attacker's cell is an input of
\* the call, so levels without an EnemySpawn cell are enough.
CombatLevels == {g \in Levels : CountCode(g, ENEMY_CELL_STATE_CODE) = 0}

CombatInit ==
    /\ game_grid \in CombatLevels
    /\ num_games = 0
    /\ current_moves_len = 0
    /\ moves_len = 0
    /\ pc = "idle"
    /\ games_played = 0
    /\ fitness = ZeroFitness
    /\ Idle
    /\ NoEvaluations
    /\ call = <<>>
    /\ result = <<>>

\* case EnemyAction.SHOOT_PLAYER on player_health = PLAYER_STARTING_HEALTH
CallShootPlayer ==
    /\ pc = "idle"
    /\ \E enemy \in EnemyCells, p \in PlayerCells :
        /\ call' = <<"SHOOT_PLAYER", enemy, p>>
        /\ result' = PLAYER_STARTING_HEALTH - resolve_damage(SHOOT_PLAYER, enemy, p)
    /\ UNCHANGED <<game_grid, num_games, par_vars, gen_vars, episode_vars>>

\* case EnemyAction.HIT_PLAYER on player_health = PLAYER_STARTING_HEALTH
CallHitPlayer ==
    /\ pc = "idle"
    /\ \E enemy \in EnemyCells, p \in PlayerCells :
        /\ call' = <<"HIT_PLAYER", enemy, p>>
        /\ result' = PLAYER_STARTING_HEALTH - resolve_damage(HIT_PLAYER, enemy, p)
    /\ UNCHANGED <<game_grid, num_games, par_vars, gen_vars, episode_vars>>

CombatNext ==
    \/ CallShootPlayer
    \/ CallHitPlayer

CombatSpec == CombatInit /\ [][CombatNext]_vars

--------------------------------------------------------------------------
(* The decision (lines 276-287) on every output vector over a few          *)
(* activation values, and the episode loop with a policy whose output      *)
(* selects no action.                                                      *)

\* EnemyAction(decision): the member with that value, or ValueError
EnemyActionOf(decision) ==
    IF decision \in MOVE_LEFT..HIT_PLAYER THEN <<"EnemyAction", decision>>
    ELSE <<"ValueError">>

\* Activations stand for floats: only their order matters to the scan.  Two
\* of them are not above the scan's starting value -1.
ActivationValues == {-2, -1, 0, 1}

OutputVectors == [0..6 -> ActivationValues]

\* output = neural_network.activate(network_inputs)
DecisionInit ==
    /\ game_grid \in LevelsUpTo(1)
    /\ num_games = 0
    /\ current_moves_len = 0
    /\ moves_len = 0
    /\ pc = "decide"
    /\ games_played = 0
    /\ fitness = ZeroFitness
    /\ Idle
    /\ NoEvaluations
    /\ call \in {<<"decide", output>> : output \in OutputVectors}
    /\ result = <<>>

\* the scan of lines 278-285 and decision = EnemyAction(decision)
CallDecide ==
    /\ pc = "decide"
    /\ result' = EnemyActionOf(Decide(call[2]))
    /\ pc' = "decided"
    /\ UNCHANGED <<game_grid, num_games, par_vars, gen_vars, games_played, player, player_health,
                   enemy_positions, enemy_index, moves_made, fitness, exit, acted,
                   oob_lookup, call>>

DecisionNext == CallDecide

DecisionSpec == DecisionInit /\ [][DecisionNext]_vars

\* Outputs with no entry above -1
MalformedOutputs ==
    {[i \in 0..6 |-> a] : a \in {v \in ActivationValues : v <= -1}}

\* One iteration of the enemy loop with such an output: EnemyAction(-1)
\* raises ValueError at line 287; neither play_game_no_display nor
\* eval_genomes_no_display catches it, so it leaves both, and
\* "return genome.fitness" is not reached.
EnemyActRaises ==
    /\ pc = "enemy"
    /\ \E output \in MalformedOutputs :
        EnemyActionOf(Decide(output)) = <<"ValueError">>
    /\ pc' = "raised"
    /\ UNCHANGED <<game_grid, num_games, par_vars, gen_vars, games_played, player, player_health,
                   enemy_positions, enemy_index, moves_made, fitness, exit, acted,
                   oob_lookup, call, result>>

PolicyErrorNext ==
    \/ Next
    \/ EnemyActRaises

\* eval_genomes_no_display for a policy that may also answer with a
\* malformed output
PolicyErrorSpec == Init /\ [][PolicyErrorNext]_vars

--------------------------------------------------------------------------
(* Construction: Trainer.__init__ from the grid file on, and               *)
(* find_start_positions, on every list of rows a grid file can hold,       *)
(* rectangular or not.                                                     *)

RawRows == UNION {[1..k -> CellCodes] : k \in 0..RawMaxSide}

RawGrids == UNION {[1..n -> RawRows] : n \in 0..RawMaxSide}

\* for x, cell_state in enumerate(row): the x of the cells holding code,
\* from column x on, as positions of row y
RECURSIVE ScanRow(_, _, _, _)
ScanRow(row, y, x, code) ==
    IF x >= Len(row) THEN <<>>
    ELSE (IF row[x + 1] = code THEN <<<<x, y>>>> ELSE <<>>)
            \o ScanRow(row, y, x + 1, code)

\* for y, row in enumerate(self.game_grid): the same over the rows from y on
RECURSIVE ScanRows(_, _, _)
ScanRows(g, y, code) ==
    IF y >= Len(g) THEN <<>>
    ELSE ScanRow(g[y + 1], y, 0, code) \o ScanRows(g, y + 1, code)

\* self.player_start_x, self.player_start_y: assigned at every PlayerSpawn
\* cell met, so the last one stays; never assigned when there is none
\* (<<>> stands for the missing attributes)
player_start_attr(g) ==
    LET found == ScanRows(g, 0, PLAYER_CELL_STATE_CODE)
    IN  IF found = <<>> THEN <<>> ELSE <<found[Len(found)]>>

\* the Trainer built from the rows g, or the exception the construction
\* raises: len(self.game_grid[0]) raises IndexError on an empty list, and
\* nothing else is tested
construct(g) ==
    IF Len(g) = 0
    THEN [error |-> "IndexError", height |-> 0, width |-> 0,
          player_start |-> <<>>, enemy_start_positions |-> <<>>]
    ELSE [error |-> "none", height |-> Len(g), width |-> Len(g[1]),
          player_start |-> player_start_attr(g),
          enemy_start_positions |-> ScanRows(g, 0, ENEMY_CELL_STATE_CODE)]

\* self.game_grid = json.load(f)
ConstructInit ==
    /\ game_grid \in RawGrids
    /\ num_games = 0
    /\ current_moves_len = 0
    /\ moves_len = 0
    /\ pc = "construct"
    /\ games_played = 0
    /\ fitness = ZeroFitness
    /\ Idle
    /\ NoEvaluations
    /\ call = <<"__init__">>
    /\ result = <<>>

Construct ==
    /\ pc = "construct"
    /\ result' = construct(game_grid)
    /\ pc' = IF Len(game_grid) = 0 THEN "raised" ELSE "constructed"
    /\ UNCHANGED <<game_grid, num_games, par_vars, gen_vars, games_played, player, player_health,
                   enemy_positions, enemy_index, moves_made, fitness, exit, acted,
                   oob_lookup, call>>

ConstructNext == Construct

ConstructSpec == ConstructInit /\ [][ConstructNext]_vars

--------------------------------------------------------------------------
(* generate_player_moves (lines 166-188).  Of current_moves the model      *)
(* keeps the length and the last position, which is (player_x, player_y);  *)
(* of moves, the length.                                                   *)

\* The generator reads no EnemySpawn position, and a cell holding one is as
\* open as an empty cell: levels without one are enough.
GeneratorLevels == {g \in EpisodeLevels : CountCode(g, ENEMY_CELL_STATE_CODE) = 0}

\* a walk that takes one position more than the limit
walk_continues_once_more(len) == len <= MAX_PLAYER_MOVES

\* for _ in range(MAX_PLAYER_MOVES): another iteration follows len appends
walk_continues(len) == len < MAX_PLAYER_MOVES

\* if player_x == self.game_grid_width - 1 and player_y == self.game_grid_height
walk_escaped(p) ==
    p[1] = game_grid_width - 1 /\ p[2] = game_grid_height

GeneratorInit ==
    /\ game_grid \in GeneratorLevels
    /\ num_games = 0
    /\ current_moves_len = 0
    /\ moves_len = 0
    /\ pc = "generate"
    /\ games_played = 0
    /\ fitness = ZeroFitness
    /\ Idle
    /\ NoEvaluations
    /\ call = <<>>
    /\ result = <<>>

\* for _ in range(GAMES_PER_GENERATION): current_moves = [];
\* player_x, player_y = self.player_start_x, self.player_start_y
StartTrajectory ==
    /\ pc = "generate"
    /\ moves_len < GAMES_PER_GENERATION
    /\ current_moves_len' = 0
    /\ player' = player_start
    /\ pc' = "walk"
    /\ UNCHANGED <<game_grid, num_games, par_vars, moves_len, games_played, player_health,
                   enemy_positions, enemy_index, moves_made, fitness, exit, acted,
                   oob_lookup, call, result>>

\* one iteration of the inner loop: random.choice(get_valid_moves(...)),
\* the append, the escape test
WalkStep ==
    /\ pc = "walk"
    /\ walk_continues(current_moves_len)
    /\ \E p \in Range(get_valid_moves(player[1], player[2])) :
        /\ player' = p
        /\ current_moves_len' = current_moves_len + 1
        /\ pc' = IF walk_escaped(p) THEN "append" ELSE "walk"
    /\ UNCHANGED <<game_grid, num_games, par_vars, moves_len, games_played, player_health,
                   enemy_positions, enemy_index, moves_made, fitness, exit, acted,
                   oob_lookup, call, result>>

\* the inner loop ran MAX_PLAYER_MOVES times
WalkEnd ==
    /\ pc = "walk"
    /\ ~walk_continues(current_moves_len)
    /\ pc' = "append"
    /\ UNCHANGED <<game_grid, num_games, par_vars, gen_vars, games_played, player, player_health,
                   enemy_positions, enemy_index, moves_made, fitness, exit, acted,
                   oob_lookup, call, result>>

\* moves.append(current_moves)
AppendTrajectory ==
    /\ pc = "append"
    /\ moves_len' = moves_len + 1
    /\ pc' = "generate"
    /\ UNCHANGED <<game_grid, num_games, par_vars, current_moves_len, games_played, player,
                   player_health, enemy_positions, enemy_index, moves_made, fitness,
                   exit, acted, oob_lookup, call, result>>

\* return moves
ReturnMoves ==
    /\ pc = "generate"
    /\ moves_len = GAMES_PER_GENERATION
    /\ pc' = "generated"
    /\ UNCHANGED <<game_grid, num_games, par_vars, gen_vars, games_played, player, player_health,
                   enemy_positions, enemy_index, moves_made, fitness, exit, acted,
                   oob_lookup, call, result>>

GeneratorNext ==
    \/ StartTrajectory
    \/ WalkStep
    \/ WalkEnd
    \/ AppendTrajectory
    \/ ReturnMoves

GeneratorSpec == GeneratorInit /\ [][GeneratorNext]_vars

--------------------------------------------------------------------------
(* Evaluations side by side: eval_genomes_no_display (lines 45-50) called  *)
(* for several genomes on the same trainer and the same player_moves, with *)
(* their steps interleaved in every order.  Each evaluation has the locals *)
(* of one call of play_game_no_display and its genome's fitness; the       *)
(* trainer's grid and enemy_start_positions and the batch are shared.      *)
(* Here the trajectories are stored, and a policy is a function of the     *)
(* network inputs, as a feed-forward network is.                           *)

\* for (x, y) in enemy_positions: append (x + 1) / width, (y + 1) / height;
\* a quotient is kept as <<numerator, denominator>>
RECURSIVE position_inputs(_, _)
position_inputs(positions, j) ==
    IF j > Len(positions) THEN <<>>
    ELSE <<<<positions[j][1] + 1, game_grid_width>>,
           <<positions[j][2] + 1, game_grid_height>>>>
            \o position_inputs(positions, j + 1)

\* network_inputs of lines 262-274
network_inputs(index, p, health, positions) ==
    <<<<index + 1, Len(positions)>>,
      <<p[1] + 1, game_grid_width>>,
      <<p[2] + 1, game_grid_height>>,
      <<health, PLAYER_STARTING_HEALTH>>>>
        \o position_inputs(positions, 1)

\* an observation taken from what the step started with
observe_step_start(e) ==
    network_inputs(e.enemy_index, e.player, e.step_health, e.step_positions)

\* the observation built for the enemy about to act: from the locals as they
\* are at that moment
observe(e) ==
    network_inputs(e.enemy_index, e.player, e.player_health, e.enemy_positions)

\* The actions the policies below choose from.
PolicyActions == {MOVE_RIGHT, MOVE_DOWN, SHOOT_PLAYER, HIT_PLAYER}

\* A policy answers with one action while the health input is 1 and with
\* another once it is below.
Policies == [healthy : PolicyActions, hurt : PolicyActions]

\* neural_network.activate(network_inputs): a function of the inputs
activate(policy, inputs) ==
    LET chosen == IF inputs[4][1] >= inputs[4][2] THEN policy.healthy ELSE policy.hurt
    IN  [i \in 0..6 |-> IF i = chosen THEN 1 ELSE 0]

\* The trajectories generate_player_moves can produce, cut to n positions:
\* walks from p through get_valid_moves that stop at the escape coordinate.
RECURSIVE WalksFrom(_, _)
WalksFrom(p, n) ==
    IF n = 0 THEN {<<>>}
    ELSE {<<>>} \cup
         UNION {{<<q>> \o w : w \in (IF walk_escaped(q) THEN {<<>>}
                                     ELSE WalksFrom(q, n - 1))} :
                q \in Range(get_valid_moves(p[1], p[2]))}

Trajectories == WalksFrom(player_start, MaxTrajLen) \ {<<>>}

\* genome.fitness as an earlier evaluation of the genome left it
StaleFitness == [reward |-> 1, dist |-> EmptyBag, terminal |-> <<1>>]

\* an evaluation about to be started
NewEvaluation ==
    [pc |-> "eval", game |-> 0, move |-> 0, player |-> <<0, 0>>,
     player_health |-> PLAYER_STARTING_HEALTH, enemy_positions |-> <<>>,
     enemy_index |-> 0, moves_made |-> 0, fitness |-> StaleFitness,
     network_inputs |-> <<>>, step_positions |-> <<>>,
     step_health |-> PLAYER_STARTING_HEALTH, moved_to |-> <<>>, taken |-> 0]

\* genome.fitness = 0
begin(e) == [e EXCEPT !.pc = "batch", !.fitness = ZeroFitness]

\* for moves in player_moves: player_health = ...; enemy_positions = a fresh
\* list of the spawn positions; moves_made = 0
start_episode(e, spawn) ==
    [e EXCEPT !.pc = "step", !.game = @ + 1, !.move = 0,
              !.player_health = PLAYER_STARTING_HEALTH,
              !.enemy_positions = spawn, !.moves_made = 0]

\* for player_x, player_y in moves: moves_made += 1; the escape test.  The
\* fields step_positions, step_health, moved_to and taken remember what the
\* step started with and what the enemies did in it so far.
next_move(e, moves) ==
    LET p == moves[e.move + 1]
    IN  [e EXCEPT !.move = @ + 1, !.player = p, !.moves_made = @ + 1,
                  !.enemy_index = 0,
                  !.step_positions = e.enemy_positions,
                  !.step_health = e.player_health,
                  !.moved_to = <<>>, !.taken = 0,
                  !.pc = IF escape_check(p) THEN "calc"
                         ELSE IF Len(e.enemy_positions) = 0 THEN "step"
                         ELSE "enemy"]

\* one iteration of the enemy loop (lines 261-368)
enemy_act(e, policy) ==
    LET inputs == observe(e)
        decision == Decide(activate(policy, inputs))
        enemy == e.enemy_positions[e.enemy_index + 1]
        moved == resolve_position(decision, enemy)
        damage == resolve_damage(decision, enemy, e.player)
        health == e.player_health - damage
    IN  [e EXCEPT !.network_inputs = inputs,
                  !.player_health = health,
                  !.enemy_positions[e.enemy_index + 1] = moved,
                  !.fitness.reward = @ + shaping_reward(enemy, moved),
                  !.fitness.dist =
                      @ (+) SetToBag({distance_penalty(e.player, enemy, moved)}),
                  !.moved_to = Append(@, moved),
                  !.taken = @ + damage,
                  !.enemy_index =
                      IF ~health_break(health) /\ e.enemy_index + 1 < Len(e.enemy_positions)
                      THEN @ + 1 ELSE @,
                  !.pc = IF health_break(health) THEN "calc"
                         ELSE IF e.enemy_index + 1 < Len(e.enemy_positions) THEN "enemy"
                         ELSE "step"]

\* "calculate fitness"
calc_fitness(e) ==
    [e EXCEPT !.pc = "batch",
              !.fitness.terminal =
                  Append(@, terminal_adjustment(e.moves_made, e.player_health))]

\* the write of line 357 reaching into the trainer's list
spawn_list_written_through(spawn, index, moved) ==
    [spawn EXCEPT ![index + 1] = moved]

\* self.enemy_start_positions after an enemy's action: line 248 made
\* enemy_positions a new list of new lists, so the write of line 357 does
\* not reach it
spawn_list_after_action(spawn, index, moved) == spawn

ParallelInitOn(levels, n) ==
    /\ game_grid \in levels
    /\ num_games = 0
    /\ current_moves_len = 0
    /\ moves_len = 0
    /\ pc = "idle"
    /\ games_played = 0
    /\ fitness = ZeroFitness
    /\ Idle
    /\ call = <<>>
    /\ result = <<>>
    /\ enemy_start = enemy_start_positions
    /\ player_moves \in [1..ParGames -> Trajectories]
    /\ policies \in [1..n -> Policies]
    /\ evals = [i \in 1..n |-> NewEvaluation]

ParallelInit == ParallelInitOn(LevelsUpTo(ParMaxCells), ParEvals)

EvalBegin(i) ==
    /\ evals[i].pc = "eval"
    /\ evals' = [evals EXCEPT ![i] = begin(@)]
    /\ UNCHANGED <<game_grid, num_games, policies, player_moves, enemy_start, gen_vars,
                   episode_vars, call, result>>

EvalStartEpisode(i) ==
    /\ evals[i].pc = "batch"
    /\ evals[i].game < Len(player_moves)
    /\ evals' = [evals EXCEPT ![i] = start_episode(@, enemy_start)]
    /\ UNCHANGED <<game_grid, num_games, policies, player_moves, enemy_start, gen_vars,
                   episode_vars, call, result>>

EvalNextMove(i) ==
    /\ evals[i].pc = "step"
    /\ evals[i].move < Len(player_moves[evals[i].game])
    /\ evals' = [evals EXCEPT ![i] = next_move(@, player_moves[evals[i].game])]
    /\ UNCHANGED <<game_grid, num_games, policies, player_moves, enemy_start, gen_vars,
                   episode_vars, call, result>>

\* the trajectory is exhausted
EvalTrajectoryEnd(i) ==
    /\ evals[i].pc = "step"
    /\ evals[i].move = Len(player_moves[evals[i].game])
    /\ evals' = [evals EXCEPT ![i].pc = "calc"]
    /\ UNCHANGED <<game_grid, num_games, policies, player_moves, enemy_start, gen_vars,
                   episode_vars, call, result>>

EvalEnemyAct(i) ==
    /\ evals[i].pc = "enemy"
    /\ evals' = [evals EXCEPT ![i] = enemy_act(@, policies[i])]
    /\ enemy_start' =
         spawn_list_after_action(enemy_start, evals[i].enemy_index,
                                 evals'[i].enemy_positions[evals[i].enemy_index + 1])
    /\ UNCHANGED <<game_grid, num_games, policies, player_moves, gen_vars,
                   episode_vars, call, result>>

EvalCalcFitness(i) ==
    /\ evals[i].pc = "calc"
    /\ evals' = [evals EXCEPT ![i] = calc_fitness(@)]
    /\ UNCHANGED <<game_grid, num_games, policies, player_moves, enemy_start, gen_vars,
                   episode_vars, call, result>>

\* return genome.fitness
EvalReturn(i) ==
    /\ evals[i].pc = "batch"
    /\ evals[i].game = Len(player_moves)
    /\ evals' = [evals EXCEPT ![i].pc = "done"]
    /\ UNCHANGED <<game_grid, num_games, policies, player_moves, enemy_start, gen_vars,
                   episode_vars, call, result>>

ParallelNext ==
    \/ \E i \in DOMAIN evals : EvalBegin(i)
    \/ \E i \in DOMAIN evals : EvalStartEpisode(i)
    \/ \E i \in DOMAIN evals : EvalNextMove(i)
    \/ \E i \in DOMAIN evals : EvalTrajectoryEnd(i)
    \/ \E i \in DOMAIN evals : EvalEnemyAct(i)
    \/ \E i \in DOMAIN evals : EvalCalcFitness(i)
    \/ \E i \in DOMAIN evals : EvalReturn(i)

ParallelSpec == ParallelInit /\ [][ParallelNext]_vars

\* One evaluation alone, on the levels episodes are played on.
SoloInit == ParallelInitOn(EpisodeLevels, 1)

SoloSpec == SoloInit /\ [][ParallelNext]_vars

--------------------------------------------------------------------------
(* Properties of the episode loop (Spec).                                  *)

InEpisode == pc \in {"step", "enemy", "calc"}

\* The three ways an episode ends, as predicates of the state it ends in.
Escaped == player = EscapeCoordinate
Defeated == player_health <= 0
MoveLimit == exit = "exhausted" /\ player_health > 0 /\ player # EscapeCoordinate

\* A measure of the work left: the batch's remaining trajectories, the
\* trajectory's remaining positions, the step's remaining enemies.
EpisodeWeight == MaxTrajLen * (MaxEnemies + 1) + MaxEnemies + 4

Variant ==
    (num_games - games_played) * EpisodeWeight
      + (CASE pc = "batch" -> EpisodeWeight - 1
           [] pc = "step" -> (MaxTrajLen - moves_made) * (MaxEnemies + 1) + 2
           [] pc = "enemy" -> (MaxTrajLen - moves_made) * (MaxEnemies + 1) + 2
                                + (Len(enemy_positions) - enemy_index)
           [] pc = "calc" -> 1
           [] OTHER -> 0)

EndsInOneOutcome ==
    pc = "calc" =>
        /\ (exit = "escape") = Escaped
        /\ (exit = "health") = Defeated
        /\ (exit = "exhausted") = MoveLimit
        /\ Cardinality({o \in {"Escaped", "Defeated", "MoveLimit"} :
                \/ o = "Escaped" /\ Escaped
                \/ o = "Defeated" /\ Defeated
                \/ o = "MoveLimit" /\ MoveLimit}) = 1

C2_DefeatEndsEpisodeAtOnce ==
    [][(InEpisode /\ player_health <= 0) =>
          /\ pc = "calc"
          /\ exit = "health"
          /\ pc' = "batch"
          /\ enemy_positions' = enemy_positions
          /\ player_health' = player_health
          /\ moves_made' = moves_made
          /\ player' = player
          /\ acted' = acted
          /\ fitness'.reward = fitness.reward
          /\ fitness'.dist = fitness.dist]_vars

\* the first of two enemies defeated the player: the second has not acted
C2_Witness ==
    /\ pc = "batch"
    /\ games_played = 1
    /\ exit = "health"
    /\ player_health <= 0
    /\ Len(enemy_positions) = 2
    /\ acted = {0}

\* C3: a step whose trajectory position is the escape coordinate ends the
\* episode as Escaped before any enemy acts: the step itself and the
\* terminal adjustment that follows it change no enemy position, not the
\* health, and add no shaping or distance summand; no enemy is queried.
C3_EscapeBeforeEnemies ==
    /\ [][(player' = EscapeCoordinate /\ moves_made' = moves_made + 1) =>
            /\ pc' = "calc"
            /\ exit' = "escape"
            /\ acted' = {}
            /\ enemy_positions' = enemy_positions
            /\ player_health' = player_health
            /\ fitness' = fitness]_vars
    /\ [][(InEpisode /\ player = EscapeCoordinate) =>
            /\ pc = "calc"
            /\ pc' = "batch"
            /\ acted' = {}
            /\ enemy_positions' = enemy_positions
            /\ player_health' = player_health
            /\ fitness'.reward = fitness.reward
            /\ fitness'.dist = fitness.dist]_vars

\* the player escaped on a level with enemies, after a step they acted in
C3_Witness ==
    /\ pc = "batch"
    /\ games_played = 1
    /\ player = EscapeCoordinate
    /\ exit = "escape"
    /\ Len(enemy_positions) > 0
    /\ acted = {}
    /\ moves_made = 2
    /\ BagCardinality(fitness.dist) = Len(enemy_positions)

\* C4: every episode adds exactly one terminal adjustment, at its end:
\* -((100 - moves_made)^2 + (100 - health)) if health > 0 and the same
\* amount with the sign + otherwise; two steps at full health without an
\* escape give -9604.
C4_TerminalAdjustment ==
    /\ [](Len(fitness.terminal) = games_played)
    /\ [][fitness'.terminal # fitness.terminal => pc = "calc"]_vars
    /\ [][pc = "calc" =>
            LET square == (100 - moves_made) * (100 - moves_made)
                amount == square + (100 - player_health)
            IN  /\ fitness'.terminal =
                      fitness.terminal \o
                          <<IF player_health > 0 THEN 0 - amount ELSE amount>>
                /\ (moves_made = 2 /\ player_health = 100 /\ exit = "exhausted")
                      => fitness'.terminal[Len(fitness'.terminal)] = 0 - 9604]_vars

\* the two-step episode at full health that neither escapes nor is lost
C4_Witness ==
    /\ pc = "batch"
    /\ games_played = 1
    /\ exit = "exhausted"
    /\ moves_made = 2
    /\ player_health = 100
    /\ Len(enemy_positions) > 0
    /\ fitness.terminal = <<0 - 9604>>

--------------------------------------------------------------------------
(* Properties of the resolver and the neighbour enumeration                *)
(* (ResolverSpec), and of the enemies' positions (Spec).                   *)

IsResolverCall == Len(call) = 5 /\ call[1] = "get_new_position"
IsNeighbourCall == Len(call) = 3 /\ call[1] = "get_valid_moves"

\* the grid's own reading of a cell, for coordinates inside the grid
IsWall(x, y) == game_grid[y + 1][x + 1] = WALL_CELL_STATE_CODE

\* C5: a move whose target cell is a Wall or lies outside the grid returns
\* the position it was asked to move from.
C5_IllegalMoveAbsorbed ==
    IsResolverCall =>
        LET x == call[2]
            y == call[3]
            tx == call[2] + call[4]
            ty == call[3] + call[5]
        IN  (~InBounds(tx, ty) \/ IsWall(tx, ty)) => result = <<x, y>>

\* C6: no enemy of an episode stands on a Wall cell.
C6_NoEnemyOnWall ==
    InEpisode =>
        \A i \in DOMAIN enemy_positions :
            LET e == enemy_positions[i]
            IN  InBounds(e[1], e[2]) => ~IsWall(e[1], e[2])

\* C7: moving down from the bottom-right cell returns the escape coordinate.
C7_CornerDownEscapes ==
    call = <<"get_new_position", game_grid_width - 1, game_grid_height - 1, 0, 1>>
        => result = EscapeCoordinate

\* C8: get_new_position returns a coordinate with y = H only when called at
\* (W-1, H-1) with direction down, and get_valid_moves lists one only when
\* called at (W-1, H-1).
C8_EscapeOnlyFromCorner ==
    /\ (IsResolverCall /\ result[2] = game_grid_height) =>
            /\ call[2] = game_grid_width - 1
            /\ call[3] = game_grid_height - 1
            /\ call[4] = 0
            /\ call[5] = 1
    /\ (IsNeighbourCall /\ \E i \in DOMAIN result : result[i][2] = game_grid_height) =>
            /\ call[2] = game_grid_width - 1
            /\ call[3] = game_grid_height - 1

\* get_valid_moves, called at the corner of a grid of two rows and two
\* columns, listed the escape coordinate
C8_Witness ==
    /\ IsNeighbourCall
    /\ game_grid_width >= 2
    /\ game_grid_height >= 2
    /\ call[2] = game_grid_width - 1
    /\ call[3] = game_grid_height - 1
    /\ \E i \in DOMAIN result : result[i] = EscapeCoordinate

\* C9: every enemy of an episode is inside the grid (0 <= x < W and
\* 0 <= y < H, so none is on the escape coordinate), and no grid lookup of a
\* move or a shot has used a coordinate outside the grid.
C9_EnemiesInBounds ==
    /\ \A i \in DOMAIN enemy_positions :
            /\ 0 <= enemy_positions[i][1]
            /\ enemy_positions[i][1] < Len(game_grid[1])
            /\ 0 <= enemy_positions[i][2]
            /\ enemy_positions[i][2] < Len(game_grid)
    /\ ~oob_lookup

\* an enemy has walked down into the bottom-right cell, and a shot has read
\* the grid and hit
C9_Witness ==
    /\ pc = "calc"
    /\ game_grid_height >= 2
    /\ \E i \in DOMAIN enemy_positions :
            /\ enemy_positions[i] = <<game_grid_width - 1, game_grid_height - 1>>
            /\ enemy_start_positions[i] = <<game_grid_width - 1, game_grid_height - 2>>
    /\ fitness.reward > 0
    /\ player_health = PLAYER_STARTING_HEALTH - ENEMY_SHOOT_DAMAGE

\* C10: on a cell that is no Wall, get_valid_moves lists the cell itself,
\* each orthogonal neighbour exactly when it is inside the grid and no Wall,
\* the escape coordinate exactly when the cell is (W-1, H-1), and nothing
\* else.
C10_ValidMovesExact ==
    IsNeighbourCall =>
        LET x == call[2]
            y == call[3]
            around == {<<x - 1, y>>, <<x + 1, y>>, <<x, y - 1>>, <<x, y + 1>>}
            open == {c \in around : InBounds(c[1], c[2]) /\ ~IsWall(c[1], c[2])}
            corner == x = Len(game_grid[1]) - 1 /\ y = Len(game_grid) - 1
        IN  /\ result[1] = <<x, y>>
            /\ Range(result) =
                 {<<x, y>>} \cup open
                   \cup (IF corner THEN {<<Len(game_grid[1]) - 1, Len(game_grid)>>}
                         ELSE {})

\* a call on a cell with a Wall on one side and an open cell on another
C10_Witness ==
    /\ IsNeighbourCall
    /\ \E c \in {<<call[2] - 1, call[3]>>, <<call[2] + 1, call[3]>>,
                 <<call[2], call[3] - 1>>, <<call[2], call[3] + 1>>} :
            InBounds(c[1], c[2]) /\ IsWall(c[1], c[2])
    /\ Len(result) >= 3

--------------------------------------------------------------------------
(* Properties of the two attacks (CombatSpec).                             *)

IsShot == Len(call) = 3 /\ call[1] = "SHOOT_PLAYER"
IsMelee == Len(call) = 3 /\ call[1] = "HIT_PLAYER"

Lo(a, b) == IF a <= b THEN a ELSE b
Hi(a, b) == IF a <= b THEN b ELSE a

SameRow(a, b) == a[2] = b[2]
SameColumn(a, b) == a[1] = b[1]

\* the cells strictly between two cells of one row or one column
Between(a, b) ==
    (IF SameRow(a, b)
     THEN {<<x, a[2]>> : x \in (Lo(a[1], b[1]) + 1)..(Hi(a[1], b[1]) - 1)}
     ELSE {})
    \cup
    (IF SameColumn(a, b)
     THEN {<<a[1], y>> : y \in (Lo(a[2], b[2]) + 1)..(Hi(a[2], b[2]) - 1)}
     ELSE {})

\* C11: a shot whose attacker and target share a row or a column with a Wall
\* on some cell strictly between them leaves the player's health unchanged.
C11_ShotBlockedByWall ==
    (/\ IsShot
     /\ SameRow(call[2], call[3]) \/ SameColumn(call[2], call[3])
     /\ \E c \in Between(call[2], call[3]) : IsWall(c[1], c[2]))
    => result = PLAYER_STARTING_HEALTH

\* the enemy at (0,1) shoots at the player at (2,1) across a Wall at (1,1)
C11_Witness ==
    /\ IsShot
    /\ call[2] = <<0, 1>>
    /\ call[3] = <<2, 1>>
    /\ IsWall(1, 1)
    /\ result = PLAYER_STARTING_HEALTH

\* C12: whenever an enemy is about to act from a cell other than the
\* player's, within squared distance 9, in the player's row or column, with
\* no Wall on a cell strictly between the two, its SHOOT_PLAYER takes exactly
\* ENEMY_SHOOT_DAMAGE off the player's health: only the cells strictly
\* between decide whether the shot is blocked.
C12_ClearShotHits ==
    pc = "enemy" =>
        LET enemy == enemy_positions[enemy_index + 1]
        IN  (/\ enemy # player
             /\ dist2(player, enemy) <= 9
             /\ SameRow(enemy, player) \/ SameColumn(enemy, player)
             /\ \A c \in Between(enemy, player) : ~IsWall(c[1], c[2]))
            => player_health - resolve_damage(SHOOT_PLAYER, enemy, player)
                 = player_health - ENEMY_SHOOT_DAMAGE

\* C13: a shot leaves the player's health unchanged when the squared
\* distance between attacker and target exceeds 9, and when the two share
\* neither a row nor a column.
C13_ShotNeedsRangeAndAlignment ==
    (/\ IsShot
     /\ \/ dist2(call[3], call[2]) > 9
        \/ ~SameRow(call[2], call[3]) /\ ~SameColumn(call[2], call[3]))
    => result = PLAYER_STARTING_HEALTH

\* a shot along a row with no Wall on it, from four cells away
C13_Witness ==
    /\ IsShot
    /\ SameRow(call[2], call[3])
    /\ dist2(call[3], call[2]) = 16
    /\ \A x \in 0..(game_grid_width - 1) : ~IsWall(x, call[2][2])
    /\ result = PLAYER_STARTING_HEALTH

Abs(n) == IF n < 0 THEN -n ELSE n

\* same cell or orthogonally adjacent
WithinOneStep(a, b) == Abs(a[1] - b[1]) + Abs(a[2] - b[2]) <= 1

\* C14: a melee takes exactly ENEMY_HIT_DAMAGE off the player's health when
\* attacker and target are on the same cell or orthogonally adjacent, and
\* nothing otherwise, whatever the cells hold.
C14_MeleeWithinOneStep ==
    IsMelee =>
        result = PLAYER_STARTING_HEALTH
                   - (IF WithinOneStep(call[2], call[3]) THEN ENEMY_HIT_DAMAGE ELSE 0)

\* attacker and target both on (1,1): health goes from 100 to 50
C14_Witness ==
    /\ IsMelee
    /\ call[2] = <<1, 1>>
    /\ call[3] = <<1, 1>>
    /\ result = 50

--------------------------------------------------------------------------
(* Properties of the decision (DecisionSpec, PolicyErrorSpec).             *)

\* C15: for every 7-entry output vector the decision is one of the seven
\* actions, namely the first index that holds the largest entry.
C15_DecisionIsFirstArgmax ==
    pc = "decided" =>
        LET output == call[2]
        IN  /\ Len(result) = 2
            /\ result[1] = "EnemyAction"
            /\ result[2] \in 0..6
            /\ \A j \in 0..6 : output[j] <= output[result[2]]
            /\ \A j \in 0..(result[2] - 1) : output[j] < output[result[2]]

\* C16: a policy whose output selects no action does not make its
\* evaluation end in an exception: the failure is contained and a fitness is
\* recorded for the policy.
C16_PolicyErrorContained == pc # "raised"

--------------------------------------------------------------------------
(* Properties of the fitness accumulated over a batch (BatchSpec, Spec).   *)

\* the enemy whose action a step from pc = "enemy" is
ActingEnemy == enemy_positions[enemy_index + 1]

\* C17: the fitness is zero before the batch, and afterwards it is the plain
\* sum, over all trajectories of the batch, of one shaping reward per enemy
\* action that changed the enemy's position, one distance penalty per enemy
\* action (the defeating one included), measured from the enemy's position
\* after the action, and one terminal adjustment per trajectory: every step
\* of the program adds exactly the summands of that step to what was
\* accumulated so far, and no step rescales or resets it.
C17_FitnessIsPlainSum ==
    /\ [](pc = "batch" /\ games_played = 0 => fitness = ZeroFitness)
    /\ [](Len(fitness.terminal) = games_played)
    /\ [][pc = "enemy" =>
            /\ fitness'.reward - fitness.reward \in {0, 1}
            /\ fitness'.dist =
                 fitness.dist
                   (+) SetToBag({dist2(player, enemy_positions'[enemy_index + 1])})
            /\ fitness'.terminal = fitness.terminal]_vars
    /\ [][pc = "calc" =>
            /\ fitness'.reward = fitness.reward
            /\ fitness'.dist = fitness.dist
            /\ fitness'.terminal =
                 Append(fitness.terminal,
                        terminal_adjustment(moves_made, player_health))]_vars
    /\ [][pc \notin {"enemy", "calc"} => fitness' = fitness]_vars

\* a finished batch of several trajectories, one of them ended by defeat, with a
\* shaping reward and several distance penalties in the sum
C17_Witness ==
    /\ pc = "done"
    /\ games_played = BatchGames
    /\ Len(fitness.terminal) = BatchGames
    /\ \E i \in 1..BatchGames : fitness.terminal[i] > 0
    /\ fitness.reward >= 1
    /\ BagCardinality(fitness.dist) >= 3

\* C18: the shaping reward is added exactly once for each enemy action after
\* which the acting enemy's position differs from its position before the
\* action, and for no other action (an absorbed move, STAND_STILL,
\* SHOOT_PLAYER and HIT_PLAYER leave the position as it was) and at no other
\* step.
C18_ShapingRewardOnMove ==
    /\ [][pc = "enemy" =>
            fitness'.reward =
                fitness.reward
                  + (IF enemy_positions'[enemy_index + 1] # ActingEnemy
                     THEN 1 ELSE 0)]_vars
    /\ [][pc # "enemy" => fitness'.reward = fitness.reward]_vars

\* two actions were taken, one moved its enemy and one did not
C18_Witness ==
    /\ fitness.reward = 1
    /\ BagCardinality(fitness.dist) = 2

--------------------------------------------------------------------------
(* Properties of the construction (ConstructSpec).                         *)

RaggedRows(g) == \E i \in DOMAIN g : Len(g[i]) # Len(g[1])
ZeroHeight(g) == Len(g) = 0
ZeroWidth(g) == Len(g) > 0 /\ Len(g[1]) = 0
NoPlayerSpawn(g) ==
    \A i \in DOMAIN g : \A j \in DOMAIN g[i] : g[i][j] # PLAYER_CELL_STATE_CODE

\* C19: the construction ends in an error, and builds no Trainer, whenever
\* the rows of the grid differ in length, the grid has no row or no column,
\* or no cell of it is a PlayerSpawn.
C19_InvalidLevelRejected ==
    (/\ pc # "construct"
     /\ \/ RaggedRows(game_grid)
        \/ ZeroHeight(game_grid)
        \/ ZeroWidth(game_grid)
        \/ NoPlayerSpawn(game_grid))
    => pc = "raised" /\ result.error # "none"

--------------------------------------------------------------------------
(* Properties of the trajectory generator (GeneratorSpec).                 *)

\* the cell itself, its orthogonal neighbours inside the grid that are no
\* Wall, and the escape coordinate from the bottom right corner
ValidNeighbours(c) ==
    {c}
      \cup {n \in {<<c[1] - 1, c[2]>>, <<c[1] + 1, c[2]>>,
                   <<c[1], c[2] - 1>>, <<c[1], c[2] + 1>>} :
                InBounds(n[1], n[2]) /\ ~IsWall(n[1], n[2])}
      \cup (IF c = <<Len(game_grid[1]) - 1, Len(game_grid) - 1>>
            THEN {EscapeCoordinate} ELSE {})

\* C20: every trajectory appended to moves holds between 1 and
\* MAX_PLAYER_MOVES positions; its first position is a valid neighbour of the
\* player spawn and every later one a valid neighbour of the one before; no
\* position is a Wall cell; the escape coordinate is never followed by
\* another position: the trajectory is appended right after it.
C20_TrajectoryWellFormed ==
    /\ [](pc = "append" =>
            current_moves_len >= 1 /\ current_moves_len <= MAX_PLAYER_MOVES)
    /\ [](pc = "walk" /\ current_moves_len = 0 => player = player_start)
    /\ [][pc = "walk" /\ current_moves_len' # current_moves_len =>
            /\ current_moves_len' = current_moves_len + 1
            /\ player' \in ValidNeighbours(player)
            /\ \/ player' = EscapeCoordinate
               \/ InBounds(player'[1], player'[2]) /\ ~IsWall(player'[1], player'[2])]_vars
    /\ [](pc = "walk" => player # EscapeCoordinate)
    /\ [][player = EscapeCoordinate /\ pc = "append" =>
            current_moves_len' = current_moves_len /\ pc' = "generate"]_vars

\* the last trajectory of the batch reached the move limit without escaping
C20_Witness ==
    /\ pc = "append"
    /\ current_moves_len = MAX_PLAYER_MOVES
    /\ player # EscapeCoordinate
    /\ moves_len = GAMES_PER_GENERATION - 1

--------------------------------------------------------------------------
(* Properties of the player's health (Spec, CombatSpec).                   *)

\* C21: within an episode the player's health never increases: every step
\* but the start of an episode leaves it as it was or lowers it; only an
\* enemy's action lowers it, and then by what a shot takes (20 per aligned
\* axis, so 20 or 40) or by what a melee takes (50), with the acting enemy
\* left where it stood.
C21_HealthNeverIncreases ==
    /\ [][pc # "batch" => player_health' <= player_health]_vars
    /\ [][pc \notin {"batch", "enemy"} => player_health' = player_health]_vars
    /\ [][pc = "enemy" /\ player_health' # player_health =>
            /\ player_health - player_health'
                 \in {ENEMY_SHOOT_DAMAGE, 2 * ENEMY_SHOOT_DAMAGE, ENEMY_HIT_DAMAGE}
            /\ enemy_positions' = enemy_positions]_vars

\* after a melee and a shot the player is left with 30
C21_Witness ==
    /\ pc = "step"
    /\ player_health
         = PLAYER_STARTING_HEALTH - ENEMY_HIT_DAMAGE - ENEMY_SHOOT_DAMAGE

\* C23: a shot from the player's own cell takes the ranged damage twice,
\* once for the row and once for the column; a shot from any other cell
\* takes it at most once.
C23_SameCellShotHitsTwice ==
    IsShot =>
        IF call[2] = call[3]
        THEN result = PLAYER_STARTING_HEALTH - 2 * ENEMY_SHOOT_DAMAGE
        ELSE result >= PLAYER_STARTING_HEALTH - ENEMY_SHOOT_DAMAGE

\* the enemy shoots from the player's cell: health goes from 100 to 60
C23_Witness ==
    /\ IsShot
    /\ call[2] = call[3]
    /\ result = 60

\* C24: the terminal adjustment of an episode is a reward (a positive
\* summand) exactly when the episode ended Defeated, that is, when the step
\* loop was left by the health break; an episode that ended by the escape or
\* with its trajectory exhausted has health above 0 at its end, and a
\* Defeated one has not.
C24_RewardIffDefeated ==
    /\ [](pc = "calc" /\ exit \in {"escape", "exhausted"} => player_health > 0)
    /\ [](pc = "calc" /\ exit = "health" => player_health <= 0)
    /\ [][pc = "calc" =>
            /\ Len(fitness'.terminal) = Len(fitness.terminal) + 1
            /\ (fitness'.terminal[Len(fitness'.terminal)] > 0) = (exit = "health")
            /\ (fitness'.terminal[Len(fitness'.terminal)] > 0) = Defeated]_vars

\* an episode ended by the action that took the last of the health
C24_Witness ==
    /\ pc = "batch"
    /\ games_played = 1
    /\ exit = "health"
    /\ player_health = 0
    /\ fitness.terminal[1] > 0

\* C25: the player's health is always a multiple of 10 between -40 and 100,
\* and it is above 0 whenever an enemy is about to act and whenever the
\* player is about to take a step.
C25_HealthRange ==
    /\ player_health \in {10 * k : k \in -4..10}
    /\ pc \in {"step", "enemy"} => player_health > 0

\* 10 health left, then a melee: the episode ends at -40
C25_Witness ==
    /\ pc = "calc"
    /\ exit = "health"
    /\ player_health = -40

--------------------------------------------------------------------------
(* Properties of evaluations side by side (ParallelSpec, SoloSpec).        *)

AllReturned == \A i \in DOMAIN evals : evals[i].pc = "done"

\* C22: an evaluation leaves the grid, the trainer's list of enemy spawns
\* and the trajectory batch as they were; a step of one evaluation changes
\* the locals and the fitness of no other; and whatever the order in which
\* the steps of the evaluations were interleaved, and whatever fitness a
\* genome carried from before, two evaluations of the same policy return the
\* same fitness.
C22_EvaluationsIndependent ==
    /\ [][/\ game_grid' = game_grid
          /\ enemy_start' = enemy_start
          /\ player_moves' = player_moves]_vars
    /\ [](enemy_start = enemy_start_positions)
    /\ [][\A i, j \in DOMAIN evals :
            i # j /\ evals'[i] # evals[i] => evals'[j] = evals[j]]_vars
    /\ [](AllReturned =>
            \A i, j \in DOMAIN evals :
                policies[i] = policies[j] => evals[i].fitness = evals[j].fitness)

\* two evaluations of one policy have returned, after actions that moved an
\* enemy
C22_Witness ==
    /\ AllReturned
    /\ policies[1] = policies[2]
    /\ evals[1].fitness = evals[2].fitness
    /\ evals[1].fitness.reward >= 1

\* C26: within a step the enemies act one after the other in spawn order.
\* The observation built for the enemy at index k holds, for every enemy
\* before it, the position that enemy's action of this same step left it on;
\* for itself and every enemy after it, the position the step started with;
\* and the health the step started with less what the enemies before it took.
\* Its action changes no position but its own.
C26_SequentialObservation ==
    [][\A i \in DOMAIN evals :
        evals[i].pc = "enemy" /\ evals'[i] # evals[i] =>
            LET e == evals[i]
                k == e.enemy_index
                n == Len(e.enemy_positions)
                obs == evals'[i].network_inputs
                seen == [j \in 1..n |-> IF j <= k THEN e.moved_to[j]
                                        ELSE e.step_positions[j]]
            IN  /\ Len(e.moved_to) = k
                /\ Len(obs) = 4 + 2 * n
                /\ obs[1] = <<k + 1, n>>
                /\ obs[2] = <<e.player[1] + 1, Len(game_grid[1])>>
                /\ obs[3] = <<e.player[2] + 1, Len(game_grid)>>
                /\ obs[4] = <<e.step_health - e.taken, PLAYER_STARTING_HEALTH>>
                /\ \A j \in 1..n :
                    /\ obs[3 + 2 * j] = <<seen[j][1] + 1, Len(game_grid[1])>>
                    /\ obs[4 + 2 * j] = <<seen[j][2] + 1, Len(game_grid)>>
                /\ \A j \in 1..n :
                    j # k + 1 => evals'[i].enemy_positions[j] = e.enemy_positions[j]]_vars

\* the second enemy has been handed an observation in which the first stands
\* where its action of this step moved it
C26_Witness ==
    /\ Len(evals[1].moved_to) = 2
    /\ evals[1].moved_to[1] # evals[1].step_positions[1]
    /\ evals[1].network_inputs[1] = <<2, 2>>
    /\ evals[1].network_inputs[5]
         = <<evals[1].moved_to[1][1] + 1, Len(game_grid[1])>>
    /\ evals[1].network_inputs[6]
         = <<evals[1].moved_to[1][2] + 1, Len(game_grid)>>

====
